---- MODULE Spec2Model ----
(***************************************************************************)
(* The three authenticated CRUD handlers of the management system          *)
(* (api/players.ts, api/attendance.ts, api/performance_notes.ts) over the  *)
(* relational tables they read and write.  Every awaited database          *)
(* statement of a handler is one step; the synchronous code that follows   *)
(* a statement (policy decision, validation, response, finally-release)    *)
(* belongs to the step of that statement.                                  *)
(***************************************************************************)
EXTENDS Integers, FiniteSets, Sequences, TLC

\* ------------------------------------------------------------ values
\* SQL NULL / JS null for identifiers (serial ids start at 1)
NULL == 0
\* a JS undefined body or query field
UNDEF == "undefined"
\* SQL NULL for text columns
NULLTEXT == "null"
NoRow == [id |-> NULL]

\* ------------------------------------------------------------ bounds
\* rows a behaviour may add to session_attendance by POST
MaxNewAttendance == 1
\* rows a behaviour may add to performance_notes by POST
MaxNewNotes == 1

\* ------------------------------------------------------------ fixed tables
\* users: 1 admin; 2, 3 coaches with a coach profile; 4 coach without one;
\* 5, 6 players (profiles 1 and 2)
Users == 1 .. 6
RoleOf(u) == CASE u = 1 -> "admin"
               [] u \in {2, 3, 4} -> "coach"
               [] OTHER -> "player"
Principals == {[id |-> u, role |-> RoleOf(u)] : u \in Users}

coaches == {[id |-> 1, user_id |-> 2], [id |-> 2, user_id |-> 3]}
\* batch 1 is coached by coach 1, batch 2 has no coach, batch 3 names a
\* coach whose row is gone
batches == {[id |-> 1, coach_id |-> 1], [id |-> 2, coach_id |-> NULL],
            [id |-> 3, coach_id |-> 9]}
training_sessions == {[id |-> 1, batch_id |-> 1], [id |-> 2, batch_id |-> 2],
                      [id |-> 3, batch_id |-> 3]}
games == {[id |-> 1, name |-> "cricket"], [id |-> 2, name |-> "football"]}

Methods == {"GET", "POST", "PUT", "DELETE", "PATCH"}
Endpoints == {"players", "attendance", "performance_notes"}
Reqs == {1, 2}

VARIABLES
    endpoint,            \* the handler the behaviour exercises
    players,             \* table players
    player_games,        \* table player_games (committed rows)
    session_attendance,  \* table session_attendance
    performance_notes,   \* table performance_notes
    attSeq,              \* serial of session_attendance.id
    noteSeq,             \* serial of performance_notes.id
    pc,                  \* per request: the statement it is about to issue
    req,                 \* per request: method, principal, query, body
    loc,                 \* per request: the handler's local variables
    resp,                \* per request: the response sent
    conn,                \* per request: the pooled connection
    pre                  \* per request: the tables when the request began

vars == <<endpoint, players, player_games, session_attendance,
          performance_notes, attSeq, noteSeq, pc, req, loc, resp, conn, pre>>

tables == <<players, player_games, session_attendance, performance_notes,
            attSeq, noteSeq>>

\* ------------------------------------------------------------ helpers
\* rows[0] of a result set keyed by a unique id
First(rows) == IF rows = {} THEN NoRow ELSE CHOOSE x \in rows : TRUE

\* x || null on an identifier
OrNull(x) == IF x = NULL THEN NULL ELSE x

NoReq == [method |-> "none"]
NoLoc == [none |-> TRUE]
NoResp == [status |-> 0, kind |-> "none", row |-> NoRow, rows |-> {}, n |-> 0]
\* tx: the transaction of the connection ("none", "open", "failed" once a
\* statement of it rejected, "rolledback", "committed"); del and ins: the rows
\* of player_games it has deleted and inserted and not yet committed;
\* failedAt: the statement that rejected
NoConn == [acquired |-> FALSE, released |-> 0, tx |-> "none",
           del |-> {}, ins |-> {}, failedAt |-> "none"]
Snapshot == [players |-> players, player_games |-> player_games,
             session_attendance |-> session_attendance,
             performance_notes |-> performance_notes]

ErrorResp(status) == [NoResp EXCEPT !.status = status, !.kind = "error"]
RowResp(row) == [NoResp EXCEPT !.status = 200, !.kind = "row", !.row = row]
ListResp(rows) == [NoResp EXCEPT !.status = 200, !.kind = "list", !.rows = rows]
CountResp(n) == [NoResp EXCEPT !.status = 200, !.kind = "count", !.n = n]
CreatedResp(id) == [NoResp EXCEPT !.status = 201, !.kind = "id", !.n = id]

\* a finally block that forgets the release
ReleaseLeaks(c) == c

\* finally { if (client) client.release() }
Release(c) == IF c.acquired THEN [c EXCEPT !.released = c.released + 1] ELSE c

\* sendApiResponse(...) followed by the handler's finally block, on the
\* connection c the request holds
Finish(r, c, response) ==
    /\ resp' = [resp EXCEPT ![r] = response]
    /\ conn' = [conn EXCEPT ![r] = Release(c)]
    /\ loc' = [loc EXCEPT ![r] = NoLoc]
    /\ pc' = [pc EXCEPT ![r] = "done"]

\* the handler goes on to its next awaited statement
Continue(r, c, label, locals) ==
    /\ pc' = [pc EXCEPT ![r] = label]
    /\ loc' = [loc EXCEPT ![r] = locals]
    /\ conn' = [conn EXCEPT ![r] = c]
    /\ resp' = [resp EXCEPT ![r] = NoResp]

\* the same after a statement that changed the connection's transaction
RespondOn(r, c, response) ==
    /\ Finish(r, c, response)
    /\ UNCHANGED <<endpoint, req, pre>>

GotoOn(r, c, label, locals) ==
    /\ Continue(r, c, label, locals)
    /\ UNCHANGED <<endpoint, req, pre>>

\* the same after a statement that left the connection as it was
Respond(r, response) == RespondOn(r, conn[r], response)
Goto(r, label, locals) == GotoOn(r, conn[r], label, locals)

\* an awaited statement rejects: catch (error) sends 500, finally releases
Throw(r) ==
    /\ Respond(r, [ErrorResp(500) EXCEPT !.kind = "thrown"])
    /\ UNCHANGED tables

\* coachUserResult.rows[0]?.user_id || null
CoachUserId(coach_id) ==
    LET rows == {c \in coaches : c.id = coach_id}
    IN  IF rows = {} THEN NULL ELSE OrNull(First(rows).user_id)

\* SELECT id FROM coaches WHERE user_id = $1
CoachOfUser(user_id) == {c \in coaches : c.user_id = user_id}

\* SELECT id FROM players WHERE user_id = $1
PlayerOfUser(user_id) == {p \in players : p.user_id = user_id}

\* ============================================================ attendance
\* the requests the attendance endpoint is exercised with
AttBodies(method) ==
    CASE method = "POST" ->
           [sessionId : {NULL, 3}, playerId : {NULL, 1, 8},
            status : {UNDEF, "present", "late"}, comments : {UNDEF}]
      [] method = "PUT" ->
           [sessionId : {NULL}, playerId : {NULL},
            status : {UNDEF, "present", "late"}, comments : {UNDEF, "ok"}]
      [] OTHER ->
           [sessionId : {NULL}, playerId : {NULL},
            status : {UNDEF}, comments : {UNDEF}]

AttIds == 1 .. (2 + MaxNewAttendance)

AttRequests ==
    UNION {
      [method : {m}, user : Principals,
       id : IF m = "POST" THEN {NULL} ELSE {NULL} \cup AttIds,
       query : IF m = "GET"
                 THEN [sessionId : {NULL, 1}, playerId : {NULL, 2}]
                 ELSE {[sessionId |-> NULL, playerId |-> NULL]},
       body : AttBodies(m)] : m \in Methods }

\* a status check that accepts every value
AttStatusValidAny(status) == TRUE

\* the statuses the PUT handler accepts
ValidStatuses == {"present", "absent", "excused"}
AttStatusValid(status) == status \in ValidStatuses

\* the join of lines 29: attendance row -> session -> batch, and -> player
AttRelatedRead(id) ==
    {[coach_id |-> b.coach_id, player_user_id |-> p.user_id] :
        <<sa, ts, b, p>> \in
          {t \in session_attendance \X training_sessions \X batches \X players :
              /\ t[1].id = id
              /\ t[1].session_id = t[2].id
              /\ t[2].batch_id = t[3].id
              /\ t[1].player_id = t[4].id}}

\* the join of lines 142 and 199: attendance row -> session -> batch
AttRelatedWrite(id) ==
    {[coach_id |-> b.coach_id] :
        <<sa, ts, b>> \in
          {t \in session_attendance \X training_sessions \X batches :
              /\ t[1].id = id
              /\ t[1].session_id = t[2].id
              /\ t[2].batch_id = t[3].id}}

\* the read decision without the comparison of the player's user id
AttReadAllowedAnyPlayer(user, coach_id, relatedCoachUserId, player_user_id) ==
    LET isRelatedCoach == /\ coach_id # NULL
                          /\ user.role = "coach"
                          /\ user.id = relatedCoachUserId
        isRelatedPlayer == user.role = "player"
    IN  ~(user.role # "admin" /\ ~isRelatedCoach /\ ~isRelatedPlayer)

\* lines 45-49: admin, the coach of the session's batch, or the player
AttReadAllowed(user, coach_id, relatedCoachUserId, player_user_id) ==
    LET isRelatedCoach == /\ coach_id # NULL
                          /\ user.role = "coach"
                          /\ user.id = relatedCoachUserId
        isRelatedPlayer == user.role = "player" /\ user.id = player_user_id
    IN  ~(user.role # "admin" /\ ~isRelatedCoach /\ ~isRelatedPlayer)

\* the write decision without the comparison of the coach's user id
AttWriteAllowedAnyCoach(user, relatedCoachUserId) ==
    ~(user.role # "admin" /\ user.role # "coach")

\* lines 156 and 214: admin, or the coach of the session's batch
AttWriteAllowed(user, relatedCoachUserId) ==
    ~(user.role # "admin"
        /\ (user.role # "coach" \/ user.id # relatedCoachUserId))

\* a POST without the role check
AttPostAllowedAnyone(user) == TRUE

\* line 114: a POST is for admin and coach
AttPostAllowed(user) == ~(user.role # "admin" /\ user.role # "coach")

\* session ids of the batches a coach owns (the subquery of line 80)
SessionsOfCoach(coach_id) ==
    {ts.id : ts \in {t \in training_sessions :
        \E b \in batches : t.batch_id = b.id /\ b.coach_id = coach_id}}

\* one WHERE condition of the collection query holds of a row
AttCondHolds(cond, row) ==
    CASE cond[1] = "player_id" -> row.player_id = cond[2]
      [] cond[1] = "session_id" -> row.session_id = cond[2]
      [] cond[1] = "session_of_coach" -> row.session_id \in SessionsOfCoach(cond[2])

\* lines 91-100: the caller's filters, for every role but player
AttCallerFilters(user, query) ==
    IF user.role # "player"
      THEN (IF query.sessionId # NULL
              THEN {<<"session_id", query.sessionId>>} ELSE {})
           \cup (IF query.playerId # NULL
              THEN {<<"player_id", query.playerId>>} ELSE {})
      ELSE {}

\* the collection query without its WHERE clause
AttSelectAll(conds) == session_attendance

\* lines 102-108: SELECT ... FROM session_attendance WHERE c1 AND c2 ...
AttSelect(conds) ==
    {row \in session_attendance : \A c \in conds : AttCondHolds(c, row)}

\* lines 17-18, 56-89, 112-124, 134-139, 191-196, 224-226: what the handler
\* does between getConnection and its first awaited statement
AttDispatch(r, q, c) ==
    CASE q.method = "GET" /\ q.id # NULL -> Continue(r, c, "att_get_row", NoLoc)
      [] q.method = "GET" /\ q.id = NULL ->
           IF q.user.role = "player"
             THEN Continue(r, c, "att_list_player", NoLoc)
           ELSE IF q.user.role = "coach"
             THEN Continue(r, c, "att_list_coach", NoLoc)
           ELSE IF q.user.role # "admin"
             THEN Finish(r, c, ErrorResp(403))
           ELSE Continue(r, c, "att_list_query",
                         [conds |-> AttCallerFilters(q.user, q.query)])
      [] q.method = "POST" ->
           IF ~AttPostAllowed(q.user)
             THEN Finish(r, c, ErrorResp(403))
           ELSE IF q.body.sessionId = NULL \/ q.body.playerId = NULL
                     \/ q.body.status = UNDEF
             THEN Finish(r, c, ErrorResp(400))
           ELSE Continue(r, c, "att_post_insert", NoLoc)
      [] q.method = "PUT" ->
           IF q.id = NULL THEN Finish(r, c, ErrorResp(400))
                          ELSE Continue(r, c, "att_put_related", NoLoc)
      [] q.method = "DELETE" ->
           IF q.id = NULL THEN Finish(r, c, ErrorResp(400))
                          ELSE Continue(r, c, "att_del_related", NoLoc)
      [] OTHER -> Finish(r, c, ErrorResp(405))

\* line 20: SELECT ... FROM session_attendance WHERE id = $1
AttGetRow(r) ==
    /\ pc[r] = "att_get_row"
    /\ UNCHANGED tables
    /\ LET rows == {a \in session_attendance : a.id = req[r].id}
       IN  IF rows = {}
             THEN Respond(r, ErrorResp(404))
             ELSE Goto(r, "att_get_related", [attendance |-> First(rows)])

\* lines 45-54: the read decision and the response
AttGetDecide(r, attendance, rel, relatedCoachUserId) ==
    IF AttReadAllowed(req[r].user, rel.coach_id, relatedCoachUserId,
                      rel.player_user_id)
      THEN Respond(r, RowResp(attendance))
      ELSE Respond(r, ErrorResp(403))

\* line 29: the join to the batch's coach and the player's user
AttGetRelated(r) ==
    /\ pc[r] = "att_get_related"
    /\ UNCHANGED tables
    /\ LET rows == AttRelatedRead(req[r].id)
           rel == First(rows)
       IN  IF rows = {}
             THEN Respond(r, ErrorResp(404))
           ELSE IF rel.coach_id # NULL
             THEN Goto(r, "att_get_coach",
                       [attendance |-> loc[r].attendance, rel |-> rel])
           ELSE AttGetDecide(r, loc[r].attendance, rel, NULL)

\* line 40: SELECT user_id FROM coaches WHERE id = $1
AttGetCoach(r) ==
    /\ pc[r] = "att_get_coach"
    /\ UNCHANGED tables
    /\ AttGetDecide(r, loc[r].attendance, loc[r].rel,
                    CoachUserId(loc[r].rel.coach_id))

\* line 64: the player's own profile
AttListPlayer(r) ==
    /\ pc[r] = "att_list_player"
    /\ UNCHANGED tables
    /\ LET rows == PlayerOfUser(req[r].user.id)
       IN  IF rows = {}
             THEN Respond(r, ErrorResp(404))
             ELSE Goto(r, "att_list_query",
                       [conds |-> {<<"player_id", First(rows).id>>}
                           \cup AttCallerFilters(req[r].user, req[r].query)])

\* a coach branch that denies the coach without a profile
AttListCoachDenies(r) ==
    /\ pc[r] = "att_list_coach"
    /\ UNCHANGED tables
    /\ LET rows == CoachOfUser(req[r].user.id)
       IN  IF rows = {}
             THEN Respond(r, ErrorResp(403))
             ELSE Goto(r, "att_list_query",
                       [conds |-> {<<"session_of_coach", First(rows).id>>}
                           \cup AttCallerFilters(req[r].user, req[r].query)])

\* line 76: the coach's own profile
AttListCoach(r) ==
    /\ pc[r] = "att_list_coach"
    /\ UNCHANGED tables
    /\ LET rows == CoachOfUser(req[r].user.id)
       IN  IF rows = {}
             THEN Respond(r, ListResp({}))
             ELSE Goto(r, "att_list_query",
                       [conds |-> {<<"session_of_coach", First(rows).id>>}
                           \cup AttCallerFilters(req[r].user, req[r].query)])

\* line 108: the collection query
AttListQuery(r) ==
    /\ pc[r] = "att_list_query"
    /\ UNCHANGED tables
    /\ Respond(r, ListResp(AttSelect(loc[r].conds)))

\* the foreign keys of session_attendance (session_id, player_id)
AttForeignKeysHold(session_id, player_id) ==
    /\ \E ts \in training_sessions : ts.id = session_id
    /\ \E p \in players : p.id = player_id

\* lines 126-132: INSERT INTO session_attendance ... RETURNING id
AttPostInsert(r) ==
    /\ pc[r] = "att_post_insert"
    /\ LET b == req[r].body
           id == attSeq + 1
       IN  IF AttForeignKeysHold(b.sessionId, b.playerId)
             THEN /\ session_attendance' = session_attendance \cup
                       {[id |-> id, session_id |-> b.sessionId,
                         player_id |-> b.playerId, status |-> b.status,
                         comments |-> IF b.comments = UNDEF THEN NULLTEXT
                                                            ELSE b.comments,
                         updated_at |-> 0]}
                  /\ attSeq' = id
                  /\ UNCHANGED <<players, player_games, performance_notes,
                                 noteSeq>>
                  /\ Respond(r, CreatedResp(id))
             ELSE Throw(r)

\* a validation that lets a body without fields through to the UPDATE
AttPutValidateLax(r) ==
    LET b == req[r].body
    IN  IF b.status # UNDEF /\ ~AttStatusValid(b.status)
          THEN Respond(r, ErrorResp(400))
          ELSE Goto(r, "att_put_update", NoLoc)

\* lines 162-180: validation of the body, after the write policy allowed
AttPutValidate(r) ==
    LET b == req[r].body
    IN  IF b.status # UNDEF /\ ~AttStatusValid(b.status)
          THEN Respond(r, ErrorResp(400))
        ELSE IF b.status = UNDEF /\ b.comments = UNDEF
          THEN Respond(r, ErrorResp(400))
        ELSE Goto(r, "att_put_update", NoLoc)

\* lines 156-159 and what follows
AttPutDecide(r, relatedCoachUserId) ==
    IF AttWriteAllowed(req[r].user, relatedCoachUserId)
      THEN AttPutValidate(r)
      ELSE Respond(r, ErrorResp(403))

\* line 142: the join to the batch's coach
AttPutRelated(r) ==
    /\ pc[r] = "att_put_related"
    /\ UNCHANGED tables
    /\ LET rows == AttRelatedWrite(req[r].id)
           rel == First(rows)
       IN  IF rows = {}
             THEN Respond(r, ErrorResp(404))
           ELSE IF rel.coach_id # NULL
             THEN Goto(r, "att_put_coach", [rel |-> rel])
           ELSE AttPutDecide(r, NULL)

\* line 152: SELECT user_id FROM coaches WHERE id = $1
AttPutCoach(r) ==
    /\ pc[r] = "att_put_coach"
    /\ UNCHANGED tables
    /\ AttPutDecide(r, CoachUserId(loc[r].rel.coach_id))

\* the row after UPDATE ... SET <fields of the body>, updated_at = now
AttUpdated(row, b) ==
    [row EXCEPT !.status = IF b.status # UNDEF THEN b.status ELSE @,
                !.comments = IF b.comments # UNDEF THEN b.comments ELSE @,
                !.updated_at = 1]

\* lines 182-188: UPDATE session_attendance SET ... WHERE id = $n
AttPutUpdate(r) ==
    /\ pc[r] = "att_put_update"
    /\ LET hit == {a \in session_attendance : a.id = req[r].id}
       IN  /\ session_attendance' = (session_attendance \ hit) \cup
                  {AttUpdated(a, req[r].body) : a \in hit}
           /\ Respond(r, CountResp(Cardinality(hit)))
    /\ UNCHANGED <<players, player_games, performance_notes, attSeq, noteSeq>>

\* lines 214-217
AttDelDecide(r, relatedCoachUserId) ==
    IF AttWriteAllowed(req[r].user, relatedCoachUserId)
      THEN Goto(r, "att_del_delete", NoLoc)
      ELSE Respond(r, ErrorResp(403))

\* line 199: the join to the batch's coach
AttDelRelated(r) ==
    /\ pc[r] = "att_del_related"
    /\ UNCHANGED tables
    /\ LET rows == AttRelatedWrite(req[r].id)
           rel == First(rows)
       IN  IF rows = {}
             THEN Respond(r, ErrorResp(404))
           ELSE IF rel.coach_id # NULL
             THEN Goto(r, "att_del_coach", [rel |-> rel])
           ELSE AttDelDecide(r, NULL)

\* line 209: SELECT user_id FROM coaches WHERE id = $1
AttDelCoach(r) ==
    /\ pc[r] = "att_del_coach"
    /\ UNCHANGED tables
    /\ AttDelDecide(r, CoachUserId(loc[r].rel.coach_id))

\* a DELETE that answers 500 when the row is gone by the time it runs
AttDelDeleteStrict(r) ==
    /\ pc[r] = "att_del_delete"
    /\ LET hit == {a \in session_attendance : a.id = req[r].id}
       IN  /\ session_attendance' = session_attendance \ hit
           /\ IF hit = {} THEN Respond(r, ErrorResp(500))
                          ELSE Respond(r, CountResp(Cardinality(hit)))
    /\ UNCHANGED <<players, player_games, performance_notes, attSeq, noteSeq>>

\* lines 220-222: DELETE FROM session_attendance WHERE id = $1
AttDelDelete(r) ==
    /\ pc[r] = "att_del_delete"
    /\ LET hit == {a \in session_attendance : a.id = req[r].id}
       IN  /\ session_attendance' = session_attendance \ hit
           /\ Respond(r, CountResp(Cardinality(hit)))
    /\ UNCHANGED <<players, player_games, performance_notes, attSeq, noteSeq>>

\* ============================================================ performance notes
NoteBodies(method) ==
    CASE method = "POST" ->
           [playerId : {NULL, 2, 8}, coachId : {NULL, 9},
            date : {UNDEF, "d1"}, note : {UNDEF, "n1"}]
      [] method = "PUT" ->
           [playerId : {NULL}, coachId : {NULL},
            date : {UNDEF, "d2"}, note : {UNDEF, "n2"}]
      [] OTHER ->
           [playerId : {NULL}, coachId : {NULL},
            date : {UNDEF}, note : {UNDEF}]

NoteIds == 1 .. (2 + MaxNewNotes)

NoteRequests ==
    UNION {
      [method : {m}, user : Principals,
       id : IF m = "POST" THEN {NULL} ELSE {NULL} \cup NoteIds,
       query : IF m = "GET"
                 THEN [playerId : {NULL, 2}, coachId : {NULL, 2}]
                 ELSE {[playerId |-> NULL, coachId |-> NULL]},
       body : NoteBodies(m)] : m \in Methods }

\* noteSubjectPlayerUserResult.rows[0]?.user_id || null
PlayerUserId(player_id) ==
    LET rows == {p \in players : p.id = player_id}
    IN  IF rows = {} THEN NULL ELSE OrNull(First(rows).user_id)

\* lines 39-43: admin, the coach who wrote the note, or its subject player
NoteReadAllowed(user, coach_id, creatorUserId, subjectUserId) ==
    LET isNoteCreatorCoach == /\ coach_id # NULL
                              /\ user.role = "coach"
                              /\ user.id = creatorUserId
        isNoteSubjectPlayer == /\ user.role = "player"
                               /\ user.id = subjectUserId
    IN  ~(user.role # "admin" /\ ~isNoteCreatorCoach /\ ~isNoteSubjectPlayer)

\* lines 159 and 209: admin, or the coach who wrote the note
NoteWriteAllowed(user, noteCreatorCoachUserId) ==
    ~(user.role # "admin"
        /\ (user.role # "coach" \/ user.id # noteCreatorCoachUserId))

\* line 111: a POST is for admin and coach
NotePostAllowed(user) == ~(user.role # "admin" /\ user.role # "coach")

\* one WHERE condition of the collection query holds of a row
NoteCondHolds(cond, row) ==
    CASE cond[1] = "player_id" -> row.player_id = cond[2]
      [] cond[1] = "coach_id" -> row.coach_id # NULL /\ row.coach_id = cond[2]

\* lines 88-97: the caller's filters, for admin and coach
NoteCallerFilters(user, query) ==
    IF user.role = "admin" \/ user.role = "coach"
      THEN (IF query.playerId # NULL
              THEN {<<"player_id", query.playerId>>} ELSE {})
           \cup (IF query.coachId # NULL
              THEN {<<"coach_id", query.coachId>>} ELSE {})
      ELSE {}

\* lines 99-105: SELECT ... FROM performance_notes WHERE c1 AND c2 ...
NoteSelect(conds) ==
    {row \in performance_notes : \A c \in conds : NoteCondHolds(c, row)}

\* lines 17-18, 50-86, 109-127, 137-142, 187-192, 218-220: what the handler
\* does between getConnection and its first awaited statement
NoteDispatch(r, q, c) ==
    CASE q.method = "GET" /\ q.id # NULL -> Continue(r, c, "note_get_row", NoLoc)
      [] q.method = "GET" /\ q.id = NULL ->
           IF q.user.role = "player"
             THEN Continue(r, c, "note_list_player", NoLoc)
           ELSE IF q.user.role = "coach"
             THEN Continue(r, c, "note_list_coach", NoLoc)
           ELSE IF q.user.role # "admin"
             THEN Finish(r, c, ErrorResp(403))
           ELSE Continue(r, c, "note_list_query",
                         [conds |-> NoteCallerFilters(q.user, q.query)])
      [] q.method = "POST" ->
           IF ~NotePostAllowed(q.user)
             THEN Finish(r, c, ErrorResp(403))
           ELSE IF q.body.playerId = NULL \/ q.body.date = UNDEF
                     \/ q.body.note = UNDEF
             THEN Finish(r, c, ErrorResp(400))
           ELSE IF q.user.role = "coach"
             THEN Continue(r, c, "note_post_coach", NoLoc)
           ELSE Continue(r, c, "note_post_insert",
                         [actualCoachId |-> q.body.coachId])
      [] q.method = "PUT" ->
           IF q.id = NULL THEN Finish(r, c, ErrorResp(400))
                          ELSE Continue(r, c, "note_put_row", NoLoc)
      [] q.method = "DELETE" ->
           IF q.id = NULL THEN Finish(r, c, ErrorResp(400))
                          ELSE Continue(r, c, "note_del_row", NoLoc)
      [] OTHER -> Finish(r, c, ErrorResp(405))

\* line 20: SELECT ... FROM performance_notes WHERE id = $1
NoteGetRow(r) ==
    /\ pc[r] = "note_get_row"
    /\ UNCHANGED tables
    /\ LET rows == {n \in performance_notes : n.id = req[r].id}
           note == First(rows)
       IN  IF rows = {}
             THEN Respond(r, ErrorResp(404))
           ELSE IF note.coach_id # NULL
             THEN Goto(r, "note_get_coach", [note |-> note])
           ELSE Goto(r, "note_get_player",
                     [note |-> note, noteCreatorCoachUserId |-> NULL])

\* line 31: SELECT user_id FROM coaches WHERE id = $1
NoteGetCoach(r) ==
    /\ pc[r] = "note_get_coach"
    /\ UNCHANGED tables
    /\ Goto(r, "note_get_player",
            [note |-> loc[r].note,
             noteCreatorCoachUserId |-> CoachUserId(loc[r].note.coach_id)])

\* lines 35-48: SELECT user_id FROM players WHERE id = $1, and the decision
NoteGetPlayer(r) ==
    /\ pc[r] = "note_get_player"
    /\ UNCHANGED tables
    /\ IF NoteReadAllowed(req[r].user, loc[r].note.coach_id,
                          loc[r].noteCreatorCoachUserId,
                          PlayerUserId(loc[r].note.player_id))
         THEN Respond(r, RowResp(loc[r].note))
         ELSE Respond(r, ErrorResp(403))

\* line 58: the player's own profile
NoteListPlayer(r) ==
    /\ pc[r] = "note_list_player"
    /\ UNCHANGED tables
    /\ LET rows == PlayerOfUser(req[r].user.id)
       IN  IF rows = {}
             THEN Respond(r, ErrorResp(404))
             ELSE Goto(r, "note_list_query",
                       [conds |-> {<<"player_id", First(rows).id>>}
                           \cup NoteCallerFilters(req[r].user, req[r].query)])

\* line 70: the coach's own profile
NoteListCoach(r) ==
    /\ pc[r] = "note_list_coach"
    /\ UNCHANGED tables
    /\ LET rows == CoachOfUser(req[r].user.id)
       IN  IF rows = {}
             THEN Respond(r, ListResp({}))
             ELSE Goto(r, "note_list_query",
                       [conds |-> {<<"coach_id", First(rows).id>>}
                           \cup NoteCallerFilters(req[r].user, req[r].query)])

\* line 105: the collection query
NoteListQuery(r) ==
    /\ pc[r] = "note_list_query"
    /\ UNCHANGED tables
    /\ Respond(r, ListResp(NoteSelect(loc[r].conds)))

\* a POST that stores the coachId of the body for every caller
NotePostCoachTrustsBody(r) ==
    /\ pc[r] = "note_post_coach"
    /\ UNCHANGED tables
    /\ Goto(r, "note_post_insert", [actualCoachId |-> req[r].body.coachId])

\* lines 125-126: actualCoachId = coachResult.rows[0]?.id || null
NotePostCoach(r) ==
    /\ pc[r] = "note_post_coach"
    /\ UNCHANGED tables
    /\ LET rows == CoachOfUser(req[r].user.id)
       IN  Goto(r, "note_post_insert",
                [actualCoachId |-> IF rows = {} THEN NULL
                                                ELSE OrNull(First(rows).id)])

\* the foreign key of performance_notes.player_id
NoteForeignKeysHold(player_id) == \E p \in players : p.id = player_id

\* lines 129-135: INSERT INTO performance_notes ... RETURNING id
NotePostInsert(r) ==
    /\ pc[r] = "note_post_insert"
    /\ LET b == req[r].body
           id == noteSeq + 1
       IN  IF NoteForeignKeysHold(b.playerId)
             THEN /\ performance_notes' = performance_notes \cup
                       {[id |-> id, player_id |-> b.playerId,
                         coach_id |-> loc[r].actualCoachId,
                         date |-> b.date, note |-> b.note, updated_at |-> 0]}
                  /\ noteSeq' = id
                  /\ UNCHANGED <<players, player_games, session_attendance,
                                 attSeq>>
                  /\ Respond(r, CreatedResp(id))
             ELSE Throw(r)

\* lines 164-176: validation of the body, after the write policy allowed
NotePutValidate(r) ==
    IF req[r].body.date = UNDEF /\ req[r].body.note = UNDEF
      THEN Respond(r, ErrorResp(400))
      ELSE Goto(r, "note_put_update", NoLoc)

\* lines 159-162 and what follows
NotePutDecide(r, noteCreatorCoachUserId) ==
    IF NoteWriteAllowed(req[r].user, noteCreatorCoachUserId)
      THEN NotePutValidate(r)
      ELSE Respond(r, ErrorResp(403))

\* line 145: SELECT coach_id FROM performance_notes WHERE id = $1
NotePutRow(r) ==
    /\ pc[r] = "note_put_row"
    /\ UNCHANGED tables
    /\ LET rows == {n \in performance_notes : n.id = req[r].id}
           note == First(rows)
       IN  IF rows = {}
             THEN Respond(r, ErrorResp(404))
           ELSE IF note.coach_id # NULL
             THEN Goto(r, "note_put_coach", [coach_id |-> note.coach_id])
           ELSE NotePutDecide(r, NULL)

\* line 155: SELECT user_id FROM coaches WHERE id = $1
NotePutCoach(r) ==
    /\ pc[r] = "note_put_coach"
    /\ UNCHANGED tables
    /\ NotePutDecide(r, CoachUserId(loc[r].coach_id))

\* the row after UPDATE ... SET <fields of the body>, updated_at = now
NoteUpdated(row, b) ==
    [row EXCEPT !.date = IF b.date # UNDEF THEN b.date ELSE @,
                !.note = IF b.note # UNDEF THEN b.note ELSE @,
                !.updated_at = 1]

\* lines 178-184: UPDATE performance_notes SET ... WHERE id = $n
NotePutUpdate(r) ==
    /\ pc[r] = "note_put_update"
    /\ LET hit == {n \in performance_notes : n.id = req[r].id}
       IN  /\ performance_notes' = (performance_notes \ hit) \cup
                  {NoteUpdated(n, req[r].body) : n \in hit}
           /\ Respond(r, CountResp(Cardinality(hit)))
    /\ UNCHANGED <<players, player_games, session_attendance, attSeq, noteSeq>>

\* lines 209-212
NoteDelDecide(r, noteCreatorCoachUserId) ==
    IF NoteWriteAllowed(req[r].user, noteCreatorCoachUserId)
      THEN Goto(r, "note_del_delete", NoLoc)
      ELSE Respond(r, ErrorResp(403))

\* line 195: SELECT coach_id FROM performance_notes WHERE id = $1
NoteDelRow(r) ==
    /\ pc[r] = "note_del_row"
    /\ UNCHANGED tables
    /\ LET rows == {n \in performance_notes : n.id = req[r].id}
           note == First(rows)
       IN  IF rows = {}
             THEN Respond(r, ErrorResp(404))
           ELSE IF note.coach_id # NULL
             THEN Goto(r, "note_del_coach", [coach_id |-> note.coach_id])
           ELSE NoteDelDecide(r, NULL)

\* line 205: SELECT user_id FROM coaches WHERE id = $1
NoteDelCoach(r) ==
    /\ pc[r] = "note_del_coach"
    /\ UNCHANGED tables
    /\ NoteDelDecide(r, CoachUserId(loc[r].coach_id))

\* lines 214-216: DELETE FROM performance_notes WHERE id = $1
NoteDelDelete(r) ==
    /\ pc[r] = "note_del_delete"
    /\ LET hit == {n \in performance_notes : n.id = req[r].id}
       IN  /\ performance_notes' = performance_notes \ hit
           /\ Respond(r, CountResp(Cardinality(hit)))
    /\ UNCHANGED <<players, player_games, session_attendance, attSeq, noteSeq>>

\* ============================================================ players
\* first_name and position stand for the six scalar columns the PUT may set
\* (lines 81-86 treat them alike)
NoSports == [kind |-> "undefined", names |-> {}]
SportsInputs ==
    {NoSports,
     [kind |-> "array", names |-> {}],
     [kind |-> "array", names |-> {"chess"}],
     [kind |-> "array", names |-> {"football", "chess"}]}

PlayerBodies(method) ==
    IF method = "PUT"
      THEN [firstName : {UNDEF, "Cy"}, position : {UNDEF, "bowler"},
            sports : SportsInputs]
      ELSE [firstName : {UNDEF}, position : {UNDEF}, sports : {NoSports}]

PlayerIds == 1 .. 2

PlayerRequests ==
    UNION {
      [method : {m}, user : Principals,
       id : IF m = "POST" THEN {NULL} ELSE {NULL} \cup PlayerIds,
       query : {[none |-> TRUE]},
       body : PlayerBodies(m)] : m \in Methods }

\* line 30: admin, any coach, or the user the player row belongs to
PlayerReadAllowed(user, player_user_id) ==
    ~(user.role # "admin" /\ user.role # "coach" /\ user.id # player_user_id)

\* line 71: admin, or the user the player row belongs to
PlayerWriteAllowed(user, player_user_id) ==
    ~(user.role # "admin" /\ user.id # player_user_id)

\* line 144: admin only
PlayerDeleteAllowed(user) == ~(user.role # "admin")

\* lines 81-86: updateFields.length > 0
HasUpdateFields(b) == b.firstName # UNDEF \/ b.position # UNDEF

\* lines 17-18, 37-47, 49-60, 137-147, 152-154
PlayerDispatch(r, q, c) ==
    CASE q.method = "GET" /\ q.id # NULL -> Continue(r, c, "pl_get_row", NoLoc)
      [] q.method = "GET" /\ q.id = NULL ->
           IF q.user.role # "admin" /\ q.user.role # "coach"
             THEN Finish(r, c, ErrorResp(403))
             ELSE Continue(r, c, "pl_list", NoLoc)
      [] q.method = "POST" -> Finish(r, c, ErrorResp(501))
      [] q.method = "PUT" ->
           IF q.id = NULL THEN Finish(r, c, ErrorResp(400))
                          ELSE Continue(r, c, "pl_put_row", NoLoc)
      [] q.method = "DELETE" ->
           IF q.id = NULL THEN Finish(r, c, ErrorResp(400))
           ELSE IF ~PlayerDeleteAllowed(q.user)
             THEN Finish(r, c, ErrorResp(403))
           ELSE Continue(r, c, "pl_delete", NoLoc)
      [] OTHER -> Finish(r, c, ErrorResp(405))

\* lines 20-35: SELECT ... FROM players WHERE id = $1, and the decision
PlayerGetRow(r) ==
    /\ pc[r] = "pl_get_row"
    /\ UNCHANGED tables
    /\ LET rows == {p \in players : p.id = req[r].id}
           player == First(rows)
       IN  IF rows = {}
             THEN Respond(r, ErrorResp(404))
           ELSE IF ~PlayerReadAllowed(req[r].user, player.user_id)
             THEN Respond(r, ErrorResp(403))
           ELSE Respond(r, RowResp(player))

\* lines 45-46: SELECT ... FROM players
PlayerList(r) ==
    /\ pc[r] = "pl_list"
    /\ UNCHANGED tables
    /\ Respond(r, ListResp(players))

\* lines 76-134 after the policy allowed: what the PUT awaits next
PlayerPutPlan(r) ==
    LET b == req[r].body
    IN  IF b.sports.kind # "undefined"
          THEN Goto(r, "pl_begin", NoLoc)
        ELSE IF HasUpdateFields(b)
          THEN Goto(r, "pl_update", NoLoc)
        ELSE Respond(r, ErrorResp(400))

\* lines 63-74: SELECT user_id FROM players WHERE id = $1, and the decision
PlayerPutRow(r) ==
    /\ pc[r] = "pl_put_row"
    /\ UNCHANGED tables
    /\ LET rows == {p \in players : p.id = req[r].id}
           player == First(rows)
       IN  IF rows = {}
             THEN Respond(r, ErrorResp(404))
           ELSE IF ~PlayerWriteAllowed(req[r].user, player.user_id)
             THEN Respond(r, ErrorResp(403))
           ELSE PlayerPutPlan(r)

\* line 91: BEGIN (outside the inner try)
PlayerBegin(r) ==
    /\ pc[r] = "pl_begin"
    /\ UNCHANGED tables
    /\ GotoOn(r, [conn[r] EXCEPT !.tx = "open"], "pl_tx_delete", NoLoc)

\* the rows of player_games the transaction of connection c sees
Visible(c) == (player_games \ c.del) \cup c.ins

\* line 94: DELETE FROM player_games WHERE player_id = $1, then lines 97
PlayerTxDelete(r) ==
    /\ pc[r] = "pl_tx_delete"
    /\ UNCHANGED tables
    /\ LET c == conn[r]
           mine == {pg \in Visible(c) : pg[1] = req[r].id}
           c2 == [c EXCEPT !.del = c.del \cup (mine \cap player_games),
                           !.ins = c.ins \ mine]
           sports == req[r].body.sports
       IN  IF sports.kind = "array" /\ sports.names # {}
             THEN GotoOn(r, c2, "pl_tx_games", NoLoc)
             ELSE GotoOn(r, c2, "pl_tx_commit", NoLoc)

\* lines 100-104: SELECT id FROM games WHERE name = ANY($1)
PlayerTxGames(r) ==
    /\ pc[r] = "pl_tx_games"
    /\ UNCHANGED tables
    /\ LET gameIds == {g.id : g \in {x \in games :
                          x.name \in req[r].body.sports.names}}
       IN  IF gameIds # {}
             THEN Goto(r, "pl_tx_insert", [gameIds |-> gameIds])
             ELSE Goto(r, "pl_tx_commit", NoLoc)

\* lines 106-107: INSERT INTO player_games (player_id, game_id) VALUES ...
PlayerTxInsert(r) ==
    /\ pc[r] = "pl_tx_insert"
    /\ UNCHANGED tables
    /\ LET c == conn[r]
           rows == {<<req[r].id, g>> : g \in loc[r].gameIds}
       IN  GotoOn(r, [c EXCEPT !.ins = c.ins \cup rows], "pl_tx_commit", NoLoc)

\* lines 120-134 after the transaction block
PlayerAfterSports(r, c) ==
    IF HasUpdateFields(req[r].body)
      THEN GotoOn(r, c, "pl_update", NoLoc)
      ELSE RespondOn(r, c, CountResp(1))

\* line 110: COMMIT
PlayerTxCommit(r) ==
    /\ pc[r] = "pl_tx_commit"
    /\ player_games' = Visible(conn[r])
    /\ UNCHANGED <<players, session_attendance, performance_notes, attSeq,
                   noteSeq>>
    /\ PlayerAfterSports(r, [conn[r] EXCEPT !.tx = "committed", !.del = {},
                                            !.ins = {}])

\* line 111: a statement of the inner try rejects; the catch awaits ROLLBACK
PlayerTxFault(r) ==
    /\ pc[r] \in {"pl_tx_delete", "pl_tx_games", "pl_tx_insert", "pl_tx_commit"}
    /\ UNCHANGED tables
    /\ GotoOn(r, [conn[r] EXCEPT !.tx = "failed", !.failedAt = pc[r]],
              "pl_rollback", NoLoc)

\* a catch block that issues COMMIT where ROLLBACK belongs
PlayerRollbackCommits(r) ==
    /\ pc[r] = "pl_rollback"
    /\ player_games' = Visible(conn[r])
    /\ UNCHANGED <<players, session_attendance, performance_notes, attSeq,
                   noteSeq>>
    /\ RespondOn(r, [conn[r] EXCEPT !.tx = "rolledback", !.del = {},
                                    !.ins = {}],
                 ErrorResp(500))

\* a catch block that rolls back and, without the return of line 115, falls
\* through to the scalar update
PlayerRollbackFallsThrough(r) ==
    /\ pc[r] = "pl_rollback"
    /\ UNCHANGED tables
    /\ PlayerAfterSports(r, [conn[r] EXCEPT !.tx = "rolledback", !.del = {},
                                            !.ins = {}])

\* lines 112-115: ROLLBACK, then the 500 of the transaction failure
PlayerRollback(r) ==
    /\ pc[r] = "pl_rollback"
    /\ UNCHANGED tables
    /\ RespondOn(r, [conn[r] EXCEPT !.tx = "rolledback", !.del = {},
                                    !.ins = {}],
                 ErrorResp(500))

\* the row after UPDATE players SET <fields of the body>, updated_at = now
PlayerUpdated(row, b) ==
    [row EXCEPT !.first_name = IF b.firstName # UNDEF THEN b.firstName ELSE @,
                !.position = IF b.position # UNDEF THEN b.position ELSE @,
                !.updated_at = 1]

\* lines 122-127: UPDATE players SET ... WHERE id = $n
PlayerUpdate(r) ==
    /\ pc[r] = "pl_update"
    /\ LET hit == {p \in players : p.id = req[r].id}
       IN  /\ players' = (players \ hit) \cup
                  {PlayerUpdated(p, req[r].body) : p \in hit}
           /\ Respond(r, CountResp(Cardinality(hit)))
    /\ UNCHANGED <<player_games, session_attendance, performance_notes,
                   attSeq, noteSeq>>

\* lines 149-150: DELETE FROM players WHERE id = $1; the rows that reference
\* the player go with it
PlayerDelete(r) ==
    /\ pc[r] = "pl_delete"
    /\ LET hit == {p \in players : p.id = req[r].id}
       IN  /\ players' = players \ hit
           /\ Respond(r, CountResp(Cardinality(hit)))
    /\ player_games' = {pg \in player_games : pg[1] # req[r].id}
    /\ session_attendance' =
          {a \in session_attendance : a.player_id # req[r].id}
    /\ performance_notes' =
          {n \in performance_notes : n.player_id # req[r].id}
    /\ UNCHANGED <<attSeq, noteSeq>>

\* ============================================================ requests
Requests(e) ==
    CASE e = "attendance" -> AttRequests
      [] e = "performance_notes" -> NoteRequests
      [] e = "players" -> PlayerRequests

Dispatch(r, q, c) ==
    CASE endpoint = "attendance" -> AttDispatch(r, q, c)
      [] endpoint = "performance_notes" -> NoteDispatch(r, q, c)
      [] endpoint = "players" -> PlayerDispatch(r, q, c)

\* the labels at which the handler awaits a statement outside the
\* transaction block of the players PUT
PlainLabels ==
    {"att_get_row", "att_get_related", "att_get_coach", "att_list_player",
     "att_list_coach", "att_list_query", "att_post_insert", "att_put_related",
     "att_put_coach", "att_put_update", "att_del_related", "att_del_coach",
     "att_del_delete",
     "note_get_row", "note_get_coach", "note_get_player", "note_list_player",
     "note_list_coach", "note_list_query", "note_post_coach",
     "note_post_insert", "note_put_row", "note_put_coach", "note_put_update",
     "note_del_row", "note_del_coach", "note_del_delete",
     "pl_get_row", "pl_list", "pl_put_row", "pl_begin", "pl_rollback",
     "pl_update", "pl_delete"}

\* the serials are capped: a POST is taken only while ids are left
SerialLeft(q) ==
    q.method = "POST" =>
        /\ attSeq < 2 + MaxNewAttendance
        /\ noteSeq < 2 + MaxNewNotes

\* line 13: client = await getConnection(), then the dispatch on the method
Begin(r) ==
    /\ pc[r] = "idle"
    /\ \A o \in Reqs \ {r} : pc[o] = "idle"
    /\ \E q \in Requests(endpoint) :
          /\ SerialLeft(q)
          /\ req' = [req EXCEPT ![r] = q]
          /\ pre' = [pre EXCEPT ![r] = Snapshot]
          /\ Dispatch(r, q, [NoConn EXCEPT !.acquired = TRUE])
    /\ UNCHANGED <<endpoint, tables>>

\* line 13 rejects: no client, catch sends 500, finally has nothing to release
ConnectFails(r) ==
    /\ pc[r] = "idle"
    /\ \A o \in Reqs \ {r} : pc[o] = "idle"
    /\ req' = [req EXCEPT ![r] = [method |-> "unread"]]
    /\ pre' = [pre EXCEPT ![r] = Snapshot]
    /\ Finish(r, NoConn, [ErrorResp(500) EXCEPT !.kind = "thrown"])
    /\ UNCHANGED <<endpoint, tables>>

\* an awaited statement rejects (connection lost, constraint violated)
Fault(r) ==
    /\ pc[r] \in PlainLabels
    /\ Throw(r)

\* the response has gone out and the handler has returned
Return(r) ==
    /\ pc[r] = "done"
    /\ pc' = [pc EXCEPT ![r] = "idle"]
    /\ req' = [req EXCEPT ![r] = NoReq]
    /\ resp' = [resp EXCEPT ![r] = NoResp]
    /\ conn' = [conn EXCEPT ![r] = NoConn]
    /\ pre' = [pre EXCEPT ![r] = NoLoc]
    /\ UNCHANGED <<endpoint, tables, loc>>

\* the rows the tables hold at the start: one row of row 1 and row 2 each
\* table's serial has handed out
AttRow1 == [id |-> 1, session_id |-> 1, player_id |-> 1, status |-> "absent",
            comments |-> NULLTEXT, updated_at |-> 0]
AttRow2 == [id |-> 2, session_id |-> 2, player_id |-> 2, status |-> "absent",
            comments |-> NULLTEXT, updated_at |-> 0]
NoteRow1 == [id |-> 1, player_id |-> 1, coach_id |-> 1, date |-> "d0",
             note |-> "n0", updated_at |-> 0]
NoteRow2 == [id |-> 2, player_id |-> 2, coach_id |-> NULL, date |-> "d0",
             note |-> "n0", updated_at |-> 0]
AttLayouts(e) ==
    IF e = "attendance" THEN {{AttRow1}, {AttRow2}} ELSE {{AttRow1}}
NoteLayouts(e) ==
    IF e = "performance_notes" THEN {{NoteRow1}, {NoteRow2}} ELSE {{NoteRow2}}

Init ==
    /\ endpoint \in Endpoints
    /\ players = {[id |-> 1, user_id |-> 5, first_name |-> "Ann",
                   position |-> "keeper", updated_at |-> 0],
                  [id |-> 2, user_id |-> 6, first_name |-> "Bo",
                   position |-> "keeper", updated_at |-> 0]}
    /\ player_games = {<<1, 1>>}
    /\ session_attendance \in AttLayouts(endpoint)
    /\ performance_notes \in NoteLayouts(endpoint)
    /\ attSeq = 2
    /\ noteSeq = 2
    /\ pc = [r \in Reqs |-> "idle"]
    /\ req = [r \in Reqs |-> NoReq]
    /\ loc = [r \in Reqs |-> NoLoc]
    /\ resp = [r \in Reqs |-> NoResp]
    /\ conn = [r \in Reqs |-> NoConn]
    /\ pre = [r \in Reqs |-> NoLoc]

\* one request at a time
Next ==
    \E r \in {1} :
        \/ Begin(r) \/ ConnectFails(r) \/ Fault(r) \/ Return(r)
        \/ AttGetRow(r) \/ AttGetRelated(r) \/ AttGetCoach(r)
        \/ AttListPlayer(r) \/ AttListCoach(r) \/ AttListQuery(r)
        \/ AttPostInsert(r)
        \/ AttPutRelated(r) \/ AttPutCoach(r) \/ AttPutUpdate(r)
        \/ AttDelRelated(r) \/ AttDelCoach(r) \/ AttDelDelete(r)
        \/ NoteGetRow(r) \/ NoteGetCoach(r) \/ NoteGetPlayer(r)
        \/ NoteListPlayer(r) \/ NoteListCoach(r) \/ NoteListQuery(r)
        \/ NotePostCoach(r) \/ NotePostInsert(r)
        \/ NotePutRow(r) \/ NotePutCoach(r) \/ NotePutUpdate(r)
        \/ NoteDelRow(r) \/ NoteDelCoach(r) \/ NoteDelDelete(r)
        \/ PlayerGetRow(r) \/ PlayerList(r) \/ PlayerPutRow(r)
        \/ PlayerBegin(r) \/ PlayerTxDelete(r) \/ PlayerTxGames(r)
        \/ PlayerTxInsert(r) \/ PlayerTxCommit(r) \/ PlayerTxFault(r)
        \/ PlayerRollback(r) \/ PlayerUpdate(r) \/ PlayerDelete(r)

Spec == Init /\ [][Next]_vars

\* ============================================================ properties
Done(r) == pc[r] = "done"

\* no awaited statement of the request rejected
Served(r) == resp[r].kind # "thrown"

\* the table of the exercised endpoint in a snapshot
TableOf(snap) ==
    CASE endpoint = "players" -> snap.players
      [] endpoint = "attendance" -> snap.session_attendance
      [] OTHER -> snap.performance_notes

\* the row the request addresses, as it was when the request began
RowsAt(r) == {x \in TableOf(pre[r]) : x.id = req[r].id}

\* the player a row is about
SubjectPlayerId(x) == IF endpoint = "players" THEN x.id ELSE x.player_id

\* the addressed row is about a player whose user is not the caller
OthersRow(r) ==
    \E x \in RowsAt(r) : \E p \in pre[r].players :
        p.id = SubjectPlayerId(x) /\ p.user_id # req[r].user.id

TxLabels == {"pl_tx_delete", "pl_tx_games", "pl_tx_insert", "pl_tx_commit"}

\* ============================================================ two requests
\* Two invocations of one handler run side by side, each on its own pooled
\* connection; every awaited statement is one step, and the steps of the two
\* interleave freely. Statements outside a transaction commit on their own.
\* Inside the sports transaction of the players PUT the database is taken to
\* run at its default isolation (read committed): a transaction sees the
\* committed rows and its own changes, a DELETE waits for rows another open
\* transaction has deleted, and once that transaction ends it deletes those
\* rows of its statement snapshot that still exist.

\* the sports list each of the two requests carries
ConcSports(r) ==
    [kind |-> "array", names |-> IF r = 1 THEN {"cricket"} ELSE {"football"}]

\* the requests of the two invocations: DELETE by id on attendance and
\* performance-notes, PUT with sports on players
ConcRequests(e, r) ==
    CASE e = "attendance" ->
           {q \in AttRequests : q.method = "DELETE" /\ q.id \in {1, 2}}
      [] e = "performance_notes" ->
           {q \in NoteRequests : q.method = "DELETE" /\ q.id \in {1, 2}}
      [] e = "players" ->
           [method : {"PUT"}, user : Principals, id : PlayerIds,
            query : {[none |-> TRUE]},
            body : [firstName : {UNDEF, "Cy"}, position : {UNDEF},
                    sports : {ConcSports(r)}]]

\* line 13 and the dispatch, whatever the other invocation is doing
BeginConc(r) ==
    /\ pc[r] = "idle"
    /\ \E q \in ConcRequests(endpoint, r) :
          /\ req' = [req EXCEPT ![r] = q]
          /\ pre' = [pre EXCEPT ![r] = Snapshot]
          /\ Dispatch(r, q, [NoConn EXCEPT !.acquired = TRUE])
    /\ UNCHANGED <<endpoint, tables>>

\* another open transaction has deleted rows of the player of request r and
\* has neither committed nor rolled back
RowsLocked(r) ==
    \E o \in Reqs \ {r} :
        /\ pc[o] \notin {"idle", "done"}
        /\ conn[o].tx \in {"open", "failed"}
        /\ \E pg \in conn[o].del : pg[1] = req[r].id

\* line 94 when no other transaction holds the player's rows
PlayerTxDeleteFree(r) ==
    /\ pc[r] = "pl_tx_delete"
    /\ ~RowsLocked(r)
    /\ PlayerTxDelete(r)

\* line 94 when another transaction holds the player's rows: the statement
\* has taken its snapshot and waits
PlayerTxDeleteWait(r) ==
    /\ pc[r] = "pl_tx_delete"
    /\ RowsLocked(r)
    /\ UNCHANGED tables
    /\ Goto(r, "pl_tx_delete_wait",
            [snapshot |-> {pg \in player_games : pg[1] = req[r].id}])

\* line 94 once the other transaction has ended: the rows of the snapshot
\* that still exist are deleted, then line 97
PlayerTxDeleteResume(r) ==
    /\ pc[r] = "pl_tx_delete_wait"
    /\ ~RowsLocked(r)
    /\ UNCHANGED tables
    /\ LET c == conn[r]
           c2 == [c EXCEPT !.del = loc[r].snapshot \cap player_games]
           sports == req[r].body.sports
       IN  IF sports.kind = "array" /\ sports.names # {}
             THEN GotoOn(r, c2, "pl_tx_games", NoLoc)
             ELSE GotoOn(r, c2, "pl_tx_commit", NoLoc)

\* line 111: the waiting DELETE rejects
PlayerTxWaitFault(r) ==
    /\ pc[r] = "pl_tx_delete_wait"
    /\ UNCHANGED tables
    /\ GotoOn(r, [conn[r] EXCEPT !.tx = "failed", !.failedAt = "pl_tx_delete"],
              "pl_rollback", NoLoc)

NextConc ==
    \E r \in Reqs :
        \/ BeginConc(r) \/ Fault(r)
        \/ AttDelRelated(r) \/ AttDelCoach(r) \/ AttDelDelete(r)
        \/ NoteDelRow(r) \/ NoteDelCoach(r) \/ NoteDelDelete(r)
        \/ PlayerPutRow(r) \/ PlayerBegin(r)
        \/ PlayerTxDeleteFree(r) \/ PlayerTxDeleteWait(r)
        \/ PlayerTxDeleteResume(r) \/ PlayerTxWaitFault(r)
        \/ PlayerTxGames(r) \/ PlayerTxInsert(r) \/ PlayerTxCommit(r)
        \/ PlayerTxFault(r) \/ PlayerRollback(r) \/ PlayerUpdate(r)

SpecConc == Init /\ [][NextConc]_vars

\* C1: on each of the three resources a GET by id issued by a player on a
\* row whose subject is another player never returns the row, and is
\* answered with 403 (500 only when a statement of the request rejected)
C1_PlayerNeverReadsOthers ==
    \A r \in Reqs :
        (/\ Done(r)
         /\ req[r].method = "GET"
         /\ req[r].id # NULL
         /\ req[r].user.role = "player"
         /\ OthersRow(r))
        => /\ resp[r].kind # "row"
           /\ Served(r) => resp[r].status = 403

C1_Witness ==
    \E r \in Reqs :
        /\ Done(r)
        /\ endpoint = "attendance"
        /\ req[r].method = "GET"
        /\ req[r].id # NULL
        /\ req[r].user.role = "player"
        /\ OthersRow(r)
        /\ resp[r].status = 403

\* C2: in a players PUT with sports, once a statement of the transaction
\* has rejected, the committed player_games rows are those of before the
\* request, ROLLBACK is the next statement, and the answer is 500
C2_SportsRollback ==
    \A r \in Reqs :
        /\ pc[r] \in TxLabels \cup {"pl_rollback"}
             => player_games = pre[r].player_games
        /\ (pc[r] = "pl_rollback") = (pc[r] # "done" /\ conn[r].tx = "failed")
        /\ (Done(r) /\ conn[r].failedAt # "none")
             => /\ resp[r].status = 500
                /\ player_games = pre[r].player_games
                /\ Served(r) => conn[r].tx = "rolledback"

C2_Witness ==
    \E r \in Reqs :
        /\ Done(r)
        /\ conn[r].failedAt \in {"pl_tx_games", "pl_tx_insert", "pl_tx_commit"}
        /\ \E pg \in pre[r].player_games : pg[1] = req[r].id
        /\ conn[r].tx = "rolledback"
        /\ resp[r].status = 500
        /\ player_games = pre[r].player_games

\* C3: a request that acquired a connection holds it unreleased while it
\* issues statements and has released it exactly once when it is done
C3_ReleasedExactlyOnce ==
    \A r \in Reqs :
        /\ pc[r] \notin {"idle", "done"}
             => conn[r].acquired /\ conn[r].released = 0
        /\ Done(r) => conn[r].released = (IF conn[r].acquired THEN 1 ELSE 0)

C3_Witness ==
    \E r \in Reqs :
        /\ Done(r)
        /\ conn[r].acquired
        /\ conn[r].released = 1
        /\ resp[r].kind = "thrown"

\* the user of the coach who owns a row (attendance: the coach of the
\* session's batch; notes: the authoring coach), NULL when the coach id is
\* null or names no coach row
OwnerCoachUser(x) ==
    LET ids == IF endpoint = "attendance"
                 THEN {b.coach_id : b \in {b \in batches :
                          \E ts \in training_sessions :
                              ts.id = x.session_id /\ ts.batch_id = b.id}}
                 ELSE {x.coach_id}
        us == {c.user_id : c \in {c \in coaches : c.id \in ids \ {NULL}}}
    IN  IF us = {} THEN NULL ELSE CHOOSE u \in us : TRUE

\* the write policy of the claim for the request's PUT or DELETE
WritePolicyAllows(r) ==
    LET u == req[r].user
    IN  CASE endpoint = "players" /\ req[r].method = "DELETE" ->
               u.role = "admin"
          [] endpoint = "players" ->
               u.role = "admin" \/ \E x \in RowsAt(r) : x.user_id = u.id
          [] OTHER ->
               \/ u.role = "admin"
               \/ /\ u.role = "coach"
                  /\ \E x \in RowsAt(r) :
                        OwnerCoachUser(x) # NULL /\ OwnerCoachUser(x) = u.id

\* C4: a PUT or DELETE changes the tables only when the write policy allows
\* the caller, and a caller it does not allow is answered with 403
C4_WritesFollowPolicy ==
    \A r \in Reqs :
        (/\ pc[r] # "idle"
         /\ req[r].method \in {"PUT", "DELETE"}
         /\ req[r].id # NULL)
        => /\ Snapshot # pre[r] => WritePolicyAllows(r)
           /\ (Done(r) /\ Served(r) /\ RowsAt(r) # {} /\ ~WritePolicyAllows(r))
                => resp[r].status = 403

C4_Witness ==
    \E r \in Reqs :
        /\ Done(r)
        /\ endpoint = "attendance"
        /\ req[r].method = "PUT"
        /\ req[r].user.id = 3
        /\ req[r].body.status = "present"
        /\ \E x \in RowsAt(r) : OwnerCoachUser(x) = 2
        /\ resp[r].status = 403
        /\ Snapshot = pre[r]

\* the mandatory fields of a POST body are present
MandatoryPresent(r) ==
    LET b == req[r].body
    IN  IF endpoint = "attendance"
          THEN b.sessionId # NULL /\ b.playerId # NULL /\ b.status # UNDEF
          ELSE b.playerId # NULL /\ b.date # UNDEF /\ b.note # UNDEF

\* C5: a POST by a player creates nothing and is answered with 403 on
\* attendance and performance notes whatever its body; a POST creates a
\* row exactly when it is answered with 201 and the new id, and then the
\* caller is admin or coach and the mandatory fields are present
C5_PostOnlyAdminOrCoach ==
    \A r \in Reqs :
        (Done(r) /\ req[r].method = "POST")
        => /\ req[r].user.role = "player"
                => /\ Snapshot = pre[r]
                   /\ (Served(r) /\ endpoint # "players")
                        => resp[r].status = 403
           /\ Snapshot # pre[r]
                => /\ req[r].user.role \in {"admin", "coach"}
                   /\ endpoint # "players"
                   /\ MandatoryPresent(r)
                   /\ resp[r].status = 201
                   /\ \E x \in TableOf(Snapshot) :
                        /\ x.id = resp[r].n
                        /\ \A y \in TableOf(pre[r]) : y.id # x.id
                        /\ TableOf(Snapshot) = TableOf(pre[r]) \cup {x}
           /\ resp[r].status = 201 => Snapshot # pre[r]

C5_Witness ==
    \E r \in Reqs :
        /\ Done(r)
        /\ endpoint = "attendance"
        /\ req[r].method = "POST"
        /\ req[r].user.role = "player"
        /\ MandatoryPresent(r)
        /\ req[r].body.playerId = 1
        /\ resp[r].status = 403

\* the caller's own player and coach profiles
OwnPlayerIds(r) ==
    {p.id : p \in {p \in pre[r].players : p.user_id = req[r].user.id}}
OwnCoachIds(r) == {c.id : c \in {c \in coaches : c.user_id = req[r].user.id}}

\* a row passes the filters the caller supplied
FilterMatch(r, x) ==
    LET q == req[r].query
    IN  IF endpoint = "attendance"
          THEN /\ q.sessionId # NULL => x.session_id = q.sessionId
               /\ q.playerId # NULL => x.player_id = q.playerId
          ELSE /\ q.playerId # NULL => x.player_id = q.playerId
               /\ q.coachId # NULL => x.coach_id = q.coachId

\* a row is tied to the calling coach's own coach id
CoachTied(r, x) ==
    IF endpoint = "attendance"
      THEN \E ts \in training_sessions : \E b \in batches :
              /\ ts.id = x.session_id
              /\ ts.batch_id = b.id
              /\ b.coach_id \in OwnCoachIds(r)
      ELSE x.coach_id \in OwnCoachIds(r)

\* C6: a collection GET of attendance or performance notes returns to a
\* player exactly the rows of the player's own profile whatever the
\* filters, to a coach the rows tied to the coach's own coach id that pass
\* the filters, to an admin the rows that pass the filters
C6_CollectionScoped ==
    \A r \in Reqs :
        (/\ Done(r)
         /\ req[r].method = "GET"
         /\ req[r].id = NULL
         /\ endpoint # "players"
         /\ Served(r))
        => LET T == TableOf(pre[r])
               role == req[r].user.role
           IN  CASE role = "player" ->
                      resp[r].kind = "list" =>
                        resp[r].rows = {x \in T : x.player_id \in OwnPlayerIds(r)}
                 [] role = "coach" ->
                      /\ resp[r].kind = "list"
                      /\ resp[r].rows =
                           {x \in T : CoachTied(r, x) /\ FilterMatch(r, x)}
                 [] role = "admin" ->
                      /\ resp[r].kind = "list"
                      /\ resp[r].rows = {x \in T : FilterMatch(r, x)}
                 [] OTHER -> resp[r].status = 403

C6_Witness ==
    \E r \in Reqs :
        /\ Done(r)
        /\ endpoint = "attendance"
        /\ req[r].method = "GET"
        /\ req[r].id = NULL
        /\ req[r].user.id = 5
        /\ req[r].query.playerId = 2
        /\ resp[r].kind = "list"
        /\ resp[r].rows # {}
        /\ \E x \in session_attendance : x.player_id = 2

\* the caller is a coach without a coach profile listing a collection
CoachWithoutProfileLists(r) ==
    /\ Done(r)
    /\ req[r].method = "GET"
    /\ req[r].id = NULL
    /\ req[r].user.role = "coach"
    /\ OwnCoachIds(r) = {}
    /\ Served(r)

\* C7 as stated: on each of the three resources the coach without a coach
\* profile gets 200 with an empty list
C7_EmptyListOnAllThree ==
    \A r \in Reqs :
        CoachWithoutProfileLists(r) => resp[r] = ListResp({})

\* C7 as amended: on attendance and performance notes the coach without a
\* coach profile gets 200 with an empty list; on players the coach gets
\* 200 with every player row
C7_EmptyListOnScopedResources ==
    \A r \in Reqs :
        CoachWithoutProfileLists(r)
        => resp[r] = ListResp(IF endpoint = "players" THEN pre[r].players
                                                      ELSE {})

C7_Witness ==
    \E r \in Reqs :
        /\ CoachWithoutProfileLists(r)
        /\ endpoint = "attendance"
        /\ session_attendance # {}
        /\ resp[r] = ListResp({})

\* C8 as stated: a DELETE of an id that has no row is answered with 404 on
\* each of the three resources, whoever calls
C8_DeleteMissingIs404 ==
    \A r \in Reqs :
        (/\ Done(r)
         /\ req[r].method = "DELETE"
         /\ req[r].id # NULL
         /\ RowsAt(r) = {}
         /\ Served(r))
        => resp[r].status = 404

\* the PUT body names no recognized field and no sports
EmptyBody(r) ==
    LET b == req[r].body
    IN  CASE endpoint = "attendance" -> b.status = UNDEF /\ b.comments = UNDEF
          [] endpoint = "performance_notes" -> b.date = UNDEF /\ b.note = UNDEF
          [] OTHER -> /\ b.firstName = UNDEF
                      /\ b.position = UNDEF
                      /\ b.sports.kind = "undefined"

\* a PUT with an empty body on a row that exists
EmptyPut(r) ==
    /\ Done(r)
    /\ req[r].method = "PUT"
    /\ req[r].id # NULL
    /\ RowsAt(r) # {}
    /\ EmptyBody(r)

\* C9 as stated: a PUT with an empty body on an existing row is answered
\* with 400 whatever the caller's role, and changes nothing
C9_EmptyPutIs400ForAll ==
    \A r \in Reqs :
        EmptyPut(r) => /\ Snapshot = pre[r]
                       /\ Served(r) => resp[r].status = 400

\* C9 as amended: a PUT with an empty body on an existing row changes
\* nothing and is answered with 400 when the write policy allows the
\* caller, with 403 when it does not
C9_EmptyPutIs400WhenAllowed ==
    \A r \in Reqs :
        EmptyPut(r)
        => /\ Snapshot = pre[r]
           /\ Served(r) => resp[r].status =
                              (IF WritePolicyAllows(r) THEN 400 ELSE 403)

C9_Witness ==
    \E r \in Reqs :
        /\ EmptyPut(r)
        /\ endpoint = "attendance"
        /\ req[r].user.id = 2
        /\ WritePolicyAllows(r)
        /\ resp[r].status = 400

\* C10: a PUT on an attendance record with a status outside present,
\* absent, excused changes nothing, with or without a comments field, and
\* is answered with 400 when the write policy lets the caller write
C10_InvalidStatusRejected ==
    \A r \in Reqs :
        (/\ pc[r] # "idle"
         /\ endpoint = "attendance"
         /\ req[r].method = "PUT"
         /\ req[r].id # NULL
         /\ req[r].body.status \notin {UNDEF, "present", "absent", "excused"})
        => /\ Snapshot = pre[r]
           /\ (Done(r) /\ Served(r) /\ RowsAt(r) # {} /\ WritePolicyAllows(r))
                => resp[r].status = 400

C10_Witness ==
    \E r \in Reqs :
        /\ Done(r)
        /\ endpoint = "attendance"
        /\ req[r].method = "PUT"
        /\ req[r].body.status = "late"
        /\ req[r].body.comments = "ok"
        /\ req[r].user.id = 2
        /\ WritePolicyAllows(r)
        /\ RowsAt(r) # {}
        /\ resp[r].status = 400
        /\ Snapshot = pre[r]

\* the coach ids of the caller's coach profile
CallerCoachIds(r) == {c.id : c \in CoachOfUser(req[r].user.id)}

\* a POST on performance-notes by a coach who has a coach profile, answered
\* with 201
CoachPosted(r) ==
    /\ Done(r)
    /\ endpoint = "performance_notes"
    /\ req[r].method = "POST"
    /\ req[r].user.role = "coach"
    /\ CallerCoachIds(r) # {}
    /\ resp[r].status = 201

\* a GET by id on performance-notes by a coach, no statement rejected
CoachReadNote(r) ==
    /\ Done(r)
    /\ Served(r)
    /\ endpoint = "performance_notes"
    /\ req[r].method = "GET"
    /\ req[r].id # NULL
    /\ req[r].user.role = "coach"

\* C11: a POST on performance-notes with playerId, date and note by a coach
\* who has a coach profile is answered with 201 and persists one row that
\* carries the body's player, date and note and the coach's own coach id,
\* whatever coachId the body carries; a GET by id by the coach whose coach
\* id the row carries returns 200 with the row's player_id, date and note,
\* and a GET by id by any other coach returns 403
C11_NoteRoundTrip ==
    \A r \in Reqs :
        /\ (/\ Done(r)
            /\ Served(r)
            /\ endpoint = "performance_notes"
            /\ req[r].method = "POST"
            /\ req[r].user.role = "coach"
            /\ CallerCoachIds(r) # {}
            /\ MandatoryPresent(r))
           => resp[r].status = 201
        /\ CoachPosted(r)
           => \E x \in performance_notes :
                /\ x.id = resp[r].n
                /\ x \notin pre[r].performance_notes
                /\ x.coach_id \in CallerCoachIds(r)
                /\ x.player_id = req[r].body.playerId
                /\ x.date = req[r].body.date
                /\ x.note = req[r].body.note
                /\ performance_notes = pre[r].performance_notes \cup {x}
        /\ CoachReadNote(r)
           => \A x \in RowsAt(r) :
                IF x.coach_id \in CallerCoachIds(r)
                  THEN /\ resp[r].status = 200
                       /\ resp[r].row.player_id = x.player_id
                       /\ resp[r].row.date = x.date
                       /\ resp[r].row.note = x.note
                  ELSE resp[r].status = 403 /\ resp[r].kind # "row"

\* the coach reads back, with 200, the note a POST created under the coach's
\* own coach id
C11_Witness ==
    \E r \in Reqs :
        /\ CoachReadNote(r)
        /\ req[r].id > 2
        /\ resp[r].status = 200
        /\ resp[r].row.coach_id \in CallerCoachIds(r)
        /\ resp[r].row.date = "d1"

\* another coach asks for a note a POST created and is answered with 403
C11_WitnessOtherCoach ==
    \E r \in Reqs :
        /\ CoachReadNote(r)
        /\ req[r].id > 2
        /\ \E x \in RowsAt(r) : x.coach_id \notin CallerCoachIds(r) \cup {NULL, 9}
        /\ resp[r].status = 403

\* a players PUT that carries both scalar fields and sports, in which a
\* statement of the sports transaction rejected
BothAndTxFailed(r) ==
    /\ endpoint = "players"
    /\ req[r].method = "PUT"
    /\ req[r].body.sports.kind # "undefined"
    /\ HasUpdateFields(req[r].body)
    /\ conn[r].failedAt # "none"

\* C12: in a players PUT that carries both scalar fields and sports, once a
\* statement of the sports transaction has rejected the scalar UPDATE is
\* never issued and the players rows stay those of before the request
C12_ScalarsUntouchedOnTxFailure ==
    \A r \in Reqs :
        BothAndTxFailed(r)
        => /\ pc[r] # "pl_update"
           /\ players = pre[r].players
           /\ Done(r) => resp[r].status = 500

C12_Witness ==
    \E r \in Reqs :
        /\ Done(r)
        /\ BothAndTxFailed(r)
        /\ req[r].body.firstName = "Cy"
        /\ conn[r].tx = "rolledback"
        /\ \E p \in players : p.id = req[r].id /\ p.first_name # "Cy"

\* C13: every attendance record carries a status among present, absent and
\* excused, and a POST or PUT on attendance that carries any other status
\* leaves the tables as they were
C13_StatusAlwaysValid ==
    /\ \A a \in session_attendance : a.status \in ValidStatuses
    /\ \A r \in Reqs :
         (/\ pc[r] # "idle"
          /\ endpoint = "attendance"
          /\ req[r].method \in {"POST", "PUT"}
          /\ req[r].body.status \notin {UNDEF} \cup ValidStatuses)
         => Snapshot = pre[r]

\* the two requests are DELETEs of the same attendance record or performance
\* note, the record existed when the first of them began, and both callers
\* are allowed to delete it
SameRowDeletes(r1, r2) ==
    /\ r1 # r2
    /\ endpoint \in {"attendance", "performance_notes"}
    /\ pc[r1] # "idle" /\ pc[r2] # "idle"
    /\ req[r1].method = "DELETE" /\ req[r2].method = "DELETE"
    /\ req[r1].id = req[r2].id
    /\ RowsAt(r1) # {}
    /\ WritePolicyAllows(r1)
    /\ \/ req[r2].user.role = "admin"
       \/ req[r2].user = req[r1].user

\* C14: when two allowed DELETEs of the same attendance record or
\* performance note run side by side and no statement rejects, neither is
\* answered with 500, exactly one reports affectedRows = 1, the other is
\* answered with 200 and affectedRows = 0 or with 404, and the row is gone
C14_ConcurrentDeletes ==
    \A r1, r2 \in Reqs :
        (/\ SameRowDeletes(r1, r2)
         /\ Done(r1) /\ Done(r2)
         /\ Served(r1) /\ Served(r2))
        => /\ resp[r1].status \in {200, 404}
           /\ resp[r2].status \in {200, 404}
           /\ Cardinality({r \in {r1, r2} :
                  resp[r].status = 200 /\ resp[r].n = 1}) = 1
           /\ \A r \in {r1, r2} :
                \/ resp[r].status = 200 /\ resp[r].n \in {0, 1}
                \/ resp[r].status = 404
           /\ \A x \in TableOf(Snapshot) : x.id # req[r1].id

\* both DELETEs passed their ownership lookups before either deleted: one
\* reports 1 and the other 0
C14_Witness ==
    \E r1, r2 \in Reqs :
        /\ SameRowDeletes(r1, r2)
        /\ Done(r1) /\ Done(r2)
        /\ endpoint = "attendance"
        /\ req[r1].user.role = "coach"
        /\ RowsAt(r2) # {}
        /\ resp[r1].status = 200 /\ resp[r1].n = 1
        /\ resp[r2].status = 200 /\ resp[r2].n = 0

\* the second DELETE began after the first had deleted: it is answered 404
C14_WitnessNotFound ==
    \E r1, r2 \in Reqs :
        /\ SameRowDeletes(r1, r2)
        /\ Done(r1) /\ Done(r2)
        /\ endpoint = "performance_notes"
        /\ resp[r1].status = 200 /\ resp[r1].n = 1
        /\ resp[r2].status = 404

\* the transaction the request began has neither committed nor rolled back
TxStillOpen(r) == conn[r].tx \in {"open", "failed"}

\* once a statement of the transaction block has rejected, the request
\* sends nothing and keeps its connection until ROLLBACK has been issued
RollbackIssuedFirst ==
    \A r \in Reqs :
        /\ (pc[r] # "done" /\ conn[r].tx = "failed")
             => /\ pc[r] = "pl_rollback"
                /\ resp[r] = NoResp
                /\ conn[r].released = 0
        /\ (Done(r) /\ conn[r].failedAt # "none")
             => \/ conn[r].tx = "rolledback"
                \/ conn[r].tx = "failed" /\ resp[r].kind = "thrown"

\* C15: in a players PUT, once a statement of the sports transaction block
\* has rejected, ROLLBACK is issued before the 500 is sent and before the
\* connection is released, and no response is sent and no connection is
\* released while the transaction the request began is still open
C15_NoResponseWhileTxOpen ==
    /\ RollbackIssuedFirst
    /\ \A r \in Reqs :
         (resp[r] # NoResp \/ conn[r].released > 0) => ~TxStillOpen(r)

\* C16: a players PUT that is answered with 500 has changed neither the
\* players rows nor the player_games rows, also when the sports transaction
\* has committed and the scalar UPDATE after it rejects
C16_PutAllOrNothing ==
    \A r \in Reqs :
        (/\ Done(r)
         /\ endpoint = "players"
         /\ req[r].method = "PUT"
         /\ resp[r].status = 500)
        => /\ players = pre[r].players
           /\ player_games = pre[r].player_games

\* the player_games rows of player id among rows
GamesOf(id, rows) == {pg \in rows : pg[1] = id}

\* the rows the sports list of request r resolves to (lines 100-106)
Resolved(r) ==
    {<<req[r].id, g.id>> : g \in {x \in games :
                               x.name \in req[r].body.sports.names}}

\* two players PUTs with sports for the same player
SamePlayerPuts(r1, r2) ==
    /\ r1 # r2
    /\ endpoint = "players"
    /\ pc[r1] # "idle" /\ pc[r2] # "idle"
    /\ req[r1].method = "PUT" /\ req[r2].method = "PUT"
    /\ req[r1].id = req[r2].id
    /\ req[r1].body.sports # req[r2].body.sports

\* C17: when two players PUTs with different sports lists for one player
\* run side by side, the committed association set of the player is at
\* every moment the set of before the requests or the full resolved set of
\* one of them, and once both have committed it is the resolved set of one
\* of them, never a union or mixture
C17_NoUnionOfSports ==
    \A r1, r2 \in Reqs :
        SamePlayerPuts(r1, r2)
        => LET id == req[r1].id
               cur == GamesOf(id, player_games)
           IN  /\ cur \in {GamesOf(id, pre[r1].player_games),
                           GamesOf(id, pre[r2].player_games),
                           Resolved(r1), Resolved(r2)}
               /\ (conn[r1].tx = "committed" /\ conn[r2].tx = "committed")
                    => cur \in {Resolved(r1), Resolved(r2)}

\* both PUTs were answered with 200 and the player holds the rows of both
C17_UnionReached ==
    \E r1, r2 \in Reqs :
        /\ SamePlayerPuts(r1, r2)
        /\ Done(r1) /\ Done(r2)
        /\ resp[r1].status = 200 /\ resp[r2].status = 200
        /\ Resolved(r1) # {} /\ Resolved(r2) # {}
        /\ GamesOf(req[r1].id, player_games) = Resolved(r1) \cup Resolved(r2)
        /\ GamesOf(req[r1].id, pre[r1].player_games) # {}

====
